---- MODULE Spec2Model ----
(***************************************************************************)
(* A model of the evaluation core of slsh (a Lisp-dialect shell): the      *)
(* special forms that save and restore interpreter state, the pipeline     *)
(* builder, the scope graph, the job table and the borrows of the child    *)
(* process table.                                                          *)
(*                                                                         *)
(* The interpreter is single threaded and recursive.  The recursion is     *)
(* modelled by an explicit stack, frames: one record per special-form call *)
(* that is waiting for eval() of one of its argument forms.  ret holds the *)
(* result eval() has just handed back to the innermost waiting call (or to *)
(* the top level when frames is empty).  Every builtin is cut at its calls *)
(* of eval(): the part up to the first call is its Enter action, the part  *)
(* after a call returns is its Resume action.                              *)
(***************************************************************************)
EXTENDS Integers, Sequences, FiniteSets, TLC

\* ------------------------------------------------------------------ bounds
\* nesting depth of special-form calls that are waiting for eval()
MaxDepth == 3
\* number of body forms / pipeline stages handed to one call
MaxForms == 2
\* number of stages of one pipeline
MaxStages == 3
\* number of child processes
MaxPids == 2
\* height of the scope stack up to which namespaces are created or entered
MaxStack == 3

\* length up to which stopped_procs grows
MaxStopped == 3
\* unwind-protect and get-error calls in progress at once
MaxNest == 2
\* elements of a template of bquote
MaxLen == 4
\* lines read from stdin
MaxLines == 3
MaxPrompts == 2
MaxGensym == 3

\* Option::None
None == "None"
\* no entry in procs for a pid
NoChild == "none"

VARIABLES
    frames,          \* the interpreter's call stack (innermost call last)
    ret,             \* result eval() just returned, NoRet while a form is being evaluated
    done,            \* the call that produced ret: what it saw on entry and left on exit
    form_type,       \* Environment.form_type
    loose_symbols,   \* Environment.loose_symbols
    run_background,  \* Environment.run_background
    dynamic_scope,   \* Environment.dynamic_scope: key -> value, None when absent
    scopes,          \* every Scope allocated so far (Rc<RefCell<Scope>>), by index
    current_scope,   \* Environment.current_scope: stack of indices into scopes
    namespaces,      \* Environment.namespaces: name -> index into scopes, 0 when absent
    in_pipe,         \* Environment.in_pipe
    stdout_status,   \* EnvState.stdout_status: None or "Pipe"
    data_in,         \* Environment.data_in: NoData or the value Some(..) holds
    pipe_pgid,       \* EnvState.pipe_pgid: 0 for None, else Some(pid)
    procs,           \* Environment.procs: pid -> the Child's stdout, NoChild when absent
    jobs,            \* Environment.jobs: sequence of [pids, status]
    stopped_procs,   \* Environment.stopped_procs: sequence of pids
    spawned,         \* number of children spawned so far (the next pid is spawned + 1)
    blocked,         \* the blocking call the interpreter is inside, NotBlocked when none
    borrowed,        \* the RefCells among procs, jobs, stopped_procs with a live borrow
    exit_code,       \* Environment.exit_code: NoCode or Some(code)
    gensym_count,    \* EnvState.gensym_count
    vec_b            \* the elements of the vector the symbol b is bound to (one shared Vec)

evalVars == <<frames, ret, done>>
flagVars == <<form_type, loose_symbols, run_background>>
scopeVars == <<scopes, current_scope, namespaces>>
pipeVars == <<in_pipe, stdout_status, data_in, pipe_pgid>>
jobVars == <<procs, jobs, stopped_procs, spawned, blocked, borrowed>>
envVars == <<exit_code, gensym_count, vec_b>>
vars == <<frames, ret, done, form_type, loose_symbols, run_background, dynamic_scope,
          scopes, current_scope, namespaces, in_pipe, stdout_status, data_in,
          pipe_pgid, procs, jobs, stopped_procs, spawned, blocked, borrowed,
          exit_code, gensym_count, vec_b>>

\* symbols a program may bind, and the values it binds them to
Keys == {"x", "y"}
\* Atom::Macro, a macro value
Macro == "macro"
Vals == {"v1", Macro}
\* symbols a program defines lexically
DefKeys == {"x"}
\* names of namespaces a program may create or enter
NsNames == {"root", "a", "b"}

\* ------------------------------------------------------- values and results
NoRet == [kind |-> "none", pid |-> 0]
Err == [kind |-> "err", pid |-> 0]
Nil == [kind |-> "nil", pid |-> 0]
True == [kind |-> "atom", pid |-> 0]
AtomValues == {Nil, True}
\* the expression a symbol is bound to, as the result of a form
Value(v) == [kind |-> v, pid |-> 0]
\* Option<Expression>::None
NoData == [kind |-> "None", pid |-> 0]
Pids == 1..MaxPids
\* Expression::Process(Running(pid)), Expression::Process(Over(pid, status))
Running(pid) == [kind |-> "proc", pid |-> pid]
Over(pid) == [kind |-> "over", pid |-> pid]
\* Expression::File(Read(..)); File(Write(..)), File(Stdout), File(Stderr)
FileRead == [kind |-> "file_r", pid |-> 0]
FileWrite == [kind |-> "file_w", pid |-> 0]
\* Expression::Atom(Atom::Int(n))
IntValue(n) == [kind |-> "int", pid |-> n]

\* Option<i32>: None and Some(code)
NoCode == [some |-> FALSE, code |-> 0]
SomeCode(code) == [some |-> TRUE, code |-> code]

NoDone == [op |-> "none"]

Top == frames[Len(frames)]
Pop == SubSeq(frames, 1, Len(frames) - 1)
\* eval() may start on the next form of the innermost call (or of the top level)
NotBlocked == [at |-> "none", pid |-> 0, by |-> "none", rest |-> {}]
Ready == ret = NoRet /\ blocked = NotBlocked
\* ... and that form may itself be a call of a special form
CanCall == Ready /\ Len(frames) < MaxDepth
Exit(r) == IF r = Err THEN "err" ELSE "ok"

\* ------------------------------------------------------------ plain forms
\* a form that evaluates to a value without touching the environment
EvalValue ==
    /\ Ready
    /\ \E v \in AtomValues : ret' = v
    /\ done' = NoDone
    /\ UNCHANGED <<frames, flagVars, dynamic_scope, scopeVars, pipeVars, jobVars, envVars>>

\* (err "msg"): a form that returns an error
EvalErr ==
    /\ Ready
    /\ ret' = Err
    /\ done' = NoDone
    /\ UNCHANGED <<frames, flagVars, dynamic_scope, scopeVars, pipeVars, jobVars, envVars>>

\* the top level takes the result of a form and goes on to the next one
TopResume ==
    /\ frames = <<>>
    /\ ret # NoRet
    /\ ret' = NoRet
    /\ done' = NoDone
    /\ UNCHANGED <<frames, flagVars, dynamic_scope, scopeVars, pipeVars, jobVars, envVars>>

\* ------------------------------------------- command, form, loose-symbols, run-bg
FormRestoreAny(old) == "Any"
\* environment.form_type = old_form
FormRestore(old) == old

\* environment.loose_symbols = old_loose_syms
LooseRestore(old) == old

\* environment.run_background = false
RunBgExit == FALSE

FlagEnter(op, set) ==
    /\ CanCall
    /\ \E n \in 0..MaxForms :
        IF n = 0
        THEN /\ form_type' = FormRestore(form_type)
             /\ ret' = Nil
             /\ done' = [op |-> op, exit |-> "ok", before |-> form_type,
                         after |-> form_type']
             /\ UNCHANGED frames
        ELSE /\ form_type' = set
             /\ frames' = Append(frames, [op |-> op, left |-> n, old |-> form_type,
                                          before |-> form_type])
             /\ UNCHANGED <<ret, done>>
    /\ UNCHANGED <<loose_symbols, run_background, dynamic_scope, scopeVars, pipeVars, jobVars, envVars>>

FlagResume(op) ==
    /\ frames # <<>>
    /\ Top.op = op
    /\ ret # NoRet
    /\ IF ret = Err \/ Top.left = 1
       THEN /\ form_type' = FormRestore(Top.old)
            /\ frames' = Pop
            /\ done' = [op |-> op, exit |-> Exit(ret), before |-> Top.before,
                        after |-> form_type']
            /\ UNCHANGED ret
       ELSE /\ frames' = [frames EXCEPT ![Len(frames)].left = @ - 1]
            /\ ret' = NoRet
            /\ done' = NoDone
            /\ UNCHANGED form_type
    /\ UNCHANGED <<loose_symbols, run_background, dynamic_scope, scopeVars, pipeVars, jobVars, envVars>>

CommandEnter == FlagEnter("command", "ExternalOnly")
CommandResume == FlagResume("command")
FormEnter == FlagEnter("form", "FormOnly")
FormResume == FlagResume("form")

LooseEnter ==
    /\ CanCall
    /\ \E n \in 0..MaxForms :
        IF n = 0
        THEN /\ loose_symbols' = LooseRestore(loose_symbols)
             /\ ret' = Nil
             /\ done' = [op |-> "loose-symbols", exit |-> "ok",
                         before |-> loose_symbols, after |-> loose_symbols']
             /\ UNCHANGED frames
        ELSE /\ loose_symbols' = TRUE
             /\ frames' = Append(frames, [op |-> "loose-symbols", left |-> n,
                                          old |-> loose_symbols,
                                          before |-> loose_symbols])
             /\ UNCHANGED <<ret, done>>
    /\ UNCHANGED <<form_type, run_background, dynamic_scope, scopeVars, pipeVars, jobVars, envVars>>

LooseResume ==
    /\ frames # <<>>
    /\ Top.op = "loose-symbols"
    /\ ret # NoRet
    /\ IF ret = Err \/ Top.left = 1
       THEN /\ loose_symbols' = LooseRestore(Top.old)
            /\ frames' = Pop
            /\ done' = [op |-> "loose-symbols", exit |-> Exit(ret),
                        before |-> Top.before, after |-> loose_symbols']
            /\ UNCHANGED ret
       ELSE /\ frames' = [frames EXCEPT ![Len(frames)].left = @ - 1]
            /\ ret' = NoRet
            /\ done' = NoDone
            /\ UNCHANGED loose_symbols
    /\ UNCHANGED <<form_type, run_background, dynamic_scope, scopeVars, pipeVars, jobVars, envVars>>

RunBgEnter ==
    /\ CanCall
    /\ \E n \in 0..MaxForms :
        IF n = 0
        THEN /\ run_background' = RunBgExit
             /\ ret' = Nil
             /\ done' = [op |-> "run-bg", exit |-> "ok",
                         before |-> run_background, after |-> run_background']
             /\ UNCHANGED frames
        ELSE /\ run_background' = TRUE
             /\ frames' = Append(frames, [op |-> "run-bg", left |-> n,
                                          before |-> run_background])
             /\ UNCHANGED <<ret, done>>
    /\ UNCHANGED <<form_type, loose_symbols, dynamic_scope, scopeVars, pipeVars, jobVars, envVars>>

RunBgResume ==
    /\ frames # <<>>
    /\ Top.op = "run-bg"
    /\ ret # NoRet
    /\ IF ret = Err \/ Top.left = 1
       THEN /\ run_background' = RunBgExit
            /\ frames' = Pop
            /\ done' = [op |-> "run-bg", exit |-> Exit(ret), before |-> Top.before,
                        after |-> run_background']
            /\ UNCHANGED ret
       ELSE /\ frames' = [frames EXCEPT ![Len(frames)].left = @ - 1]
            /\ ret' = NoRet
            /\ done' = NoDone
            /\ UNCHANGED run_background
    /\ UNCHANGED <<form_type, loose_symbols, dynamic_scope, scopeVars, pipeVars, jobVars, envVars>>

\* ------------------------------------------------------------- scope graph
\* Scope::default: the root scope, a namespace named "root" without a parent
RootScope == [data |-> [k \in Keys |-> None], outer |-> 0, name |-> "root"]
\* Environment.root_scope
root_scope == 1
\* the innermost scope: current_scope.last()
CurrentScope == current_scope[Len(current_scope)]

\* the nearest scope on the outer chain of s that binds key, 0 when none does
RECURSIVE ScopeWith(_, _)
ScopeWith(s, key) ==
    IF s = 0 THEN 0
    ELSE IF scopes[s].data[key] # None THEN s
    ELSE ScopeWith(scopes[s].outer, key)

SymbolsScopeCurrent(key) == CurrentScope
get_symbols_scope(key) == ScopeWith(CurrentScope, key)

\* ----------------------------------------------------------------- set, dyn
\* (set key val): key and val are already evaluated by proc_set_vars
builtin_set ==
    /\ Ready
    /\ \E key \in Keys, val \in Vals :
        /\ IF dynamic_scope[key] # None
           THEN /\ dynamic_scope' = [dynamic_scope EXCEPT ![key] = val]
                /\ ret' = Value(val)
                /\ UNCHANGED scopes
           ELSE IF get_symbols_scope(key) # 0
           THEN /\ scopes' = [scopes EXCEPT ![get_symbols_scope(key)].data[key] = val]
                /\ ret' = Value(val)
                /\ UNCHANGED dynamic_scope
           ELSE /\ ret' = Err
                /\ UNCHANGED <<dynamic_scope, scopes>>
        /\ done' = [op |-> "set", ns |-> None, key |-> key, val |-> val]
    /\ UNCHANGED <<frames, flagVars, current_scope, namespaces, pipeVars, jobVars, envVars>>

\* let old_val = ... dynamic_scope.remove(&key) ...
DynTakeOld(ds, key) == [ds EXCEPT ![key] = None]
\* environment.dynamic_scope.insert(key.clone(), Rc::new(val))
DynBind(ds, key, val) == [ds EXCEPT ![key] = val]
\* if let Some(old_val) = old_val { insert(key, old_val) } else { remove(&key) }
DynRestore(ds, key, old_val) == [ds EXCEPT ![key] = old_val]

\* (dyn key val body): up to the evaluation of body.  args says how the call
\* is made: "bad" (proc_set_vars fails: fewer than two forms, or the key is no
\* symbol), "nobody" (key and value but no body form), "body" (all three);
\* keys and vals are the symbols and values the program uses
DynCall(keys, vals) ==
    /\ CanCall
    /\ \E args \in {"bad", "nobody", "body"}, key \in keys, val \in vals :
        CASE args = "bad" ->
                /\ ret' = Err
                /\ done' = [op |-> "dyn", exit |-> "fail", key |-> key,
                            before |-> dynamic_scope[key],
                            after |-> dynamic_scope[key]]
                /\ UNCHANGED <<frames, dynamic_scope>>
          [] args = "nobody" ->
                /\ dynamic_scope' = DynTakeOld(dynamic_scope, key)
                /\ ret' = Err
                /\ done' = [op |-> "dyn", exit |-> "fail", key |-> key,
                            before |-> dynamic_scope[key],
                            after |-> dynamic_scope'[key]]
                /\ UNCHANGED frames
          [] args = "body" ->
                /\ dynamic_scope' = DynBind(DynTakeOld(dynamic_scope, key), key, val)
                /\ frames' = Append(frames, [op |-> "dyn", left |-> 1, key |-> key,
                                             old |-> dynamic_scope[key],
                                             before |-> dynamic_scope[key]])
                /\ UNCHANGED <<ret, done>>
    /\ UNCHANGED <<flagVars, scopeVars, pipeVars, jobVars, envVars>>

DynEnter == DynCall(Keys, Vals)
\* dyn of a symbol that programs also define lexically, bound to a macro
DynEnterDef == DynCall(DefKeys, {Macro})

\* (dyn key val body): after body returned, with a value or an error
DynResume ==
    /\ frames # <<>>
    /\ Top.op = "dyn"
    /\ ret # NoRet
    /\ dynamic_scope' = DynRestore(dynamic_scope, Top.key, Top.old)
    /\ frames' = Pop
    /\ done' = [op |-> "dyn", exit |-> Exit(ret), key |-> Top.key,
                before |-> Top.before, after |-> dynamic_scope'[Top.key]]
    /\ UNCHANGED <<ret, flagVars, scopeVars, pipeVars, jobVars, envVars>>

\* ------------------------------------------------------ def, undef, namespaces
GetExpressionLexicalFirst(key) ==
    IF ScopeWith(CurrentScope, key) # 0 THEN scopes[ScopeWith(CurrentScope, key)].data[key]
    ELSE dynamic_scope[key]
\* get_expression for a key without "::": the dynamic binding, else the binding
\* in the nearest scope on the outer chain of the current scope, else None
get_expression(key) ==
    IF dynamic_scope[key] # None THEN dynamic_scope[key]
    ELSE IF ScopeWith(CurrentScope, key) = 0 THEN None
    ELSE scopes[ScopeWith(CurrentScope, key)].data[key]

ScopeNamedInRegistry(s, ns) == IF ns \in NsNames THEN namespaces[ns] ELSE 0
\* the nearest scope on the outer chain of s whose name is ns, 0 when none is
RECURSIVE ScopeNamed(_, _)
ScopeNamed(s, ns) ==
    IF s = 0 THEN 0
    ELSE IF scopes[s].name = ns THEN s
    ELSE ScopeNamed(scopes[s].outer, ns)

\* get_expression("*ns*") as builtin_def reads it: the name of the nearest
\* namespace on the outer chain of s (every namespace scope binds *ns* to its
\* name, a lexical scope does not bind it)
RECURSIVE NsOf(_)
NsOf(s) ==
    IF s = 0 THEN "NO_NAME"
    ELSE IF scopes[s].name # None THEN scopes[s].name
    ELSE NsOf(scopes[s].outer)

\* the namespace a key ns::name names: "ns" stands for the current namespace
DefNamespace(ns) == IF ns = "ns" THEN NsOf(CurrentScope) ELSE ns

\* set_expression_current: the scope it writes
DefTarget == CurrentScope

\* (def key val) with key and val already evaluated; ns is None for a key
\* without "::", else the namespace part of ns::key
builtin_def ==
    /\ Ready
    /\ \E ns \in NsNames \cup {"ns", None}, key \in DefKeys, val \in Vals :
        /\ IF ns = None
           THEN /\ scopes' = [scopes EXCEPT ![DefTarget].data[key] = val]
                /\ ret' = Value(val)
           ELSE IF ScopeNamed(CurrentScope, DefNamespace(ns)) # 0
           THEN /\ scopes' = [scopes EXCEPT
                                ![ScopeNamed(CurrentScope, DefNamespace(ns))].data[key] = val]
                /\ ret' = Value(val)
           ELSE /\ ret' = Err
                /\ UNCHANGED scopes
        /\ done' = [op |-> "def", ns |-> ns, key |-> key, val |-> val]
    /\ UNCHANGED <<frames, flagVars, dynamic_scope, current_scope, namespaces, pipeVars, jobVars, envVars>>

GetExpressionNsOnChain(ns, key) ==
    IF ScopeNamed(CurrentScope, ns) = 0 THEN None
    ELSE scopes[ScopeNamed(CurrentScope, ns)].data[key]
\* get_expression for a key ns::key (no such key is bound dynamically): the
\* binding in the registered namespace ns, else None
get_expression_ns(ns, key) ==
    IF namespaces[ns] = 0 THEN None ELSE scopes[namespaces[ns]].data[key]

\* a symbol is evaluated: the form yields what get_expression finds, and an
\* error when it finds nothing
LookupSymbol ==
    /\ Ready
    /\ \E ns \in NsNames \cup {None}, key \in DefKeys :
        /\ ret' = IF ns = None
                  THEN IF get_expression(key) = None THEN Err ELSE Value(get_expression(key))
                  ELSE IF get_expression_ns(ns, key) = None THEN Err
                  ELSE Value(get_expression_ns(ns, key))
        /\ done' = [op |-> "lookup", ns |-> ns, key |-> key, val |-> None]
    /\ UNCHANGED <<frames, flagVars, dynamic_scope, scopeVars, pipeVars, jobVars, envVars>>

\* overwrite_expression(key, val): the dynamic binding when there is one, else
\* for ns::key the binding in the registered namespace, else the nearest
\* binding on the outer chain; nothing when the key is not bound there
overwrite_expression ==
    /\ Ready
    /\ \E ns \in NsNames \cup {None}, key \in DefKeys, val \in Vals :
        /\ IF ns = None /\ dynamic_scope[key] # None
           THEN /\ dynamic_scope' = [dynamic_scope EXCEPT ![key] = val]
                /\ UNCHANGED scopes
           ELSE IF ns # None
           THEN /\ scopes' = IF get_expression_ns(ns, key) # None
                             THEN [scopes EXCEPT ![namespaces[ns]].data[key] = val]
                             ELSE scopes
                /\ UNCHANGED dynamic_scope
           ELSE /\ scopes' = IF ScopeWith(CurrentScope, key) # 0
                             THEN [scopes EXCEPT ![ScopeWith(CurrentScope, key)].data[key] = val]
                             ELSE scopes
                /\ UNCHANGED dynamic_scope
        /\ done' = [op |-> "overwrite", ns |-> ns, key |-> key, val |-> val]
    /\ ret' = Nil
    /\ UNCHANGED <<frames, flagVars, current_scope, namespaces, pipeVars, jobVars, envVars>>

\* (undef key): remove_expression_current
builtin_undef ==
    /\ Ready
    /\ \E key \in DefKeys :
        scopes' = [scopes EXCEPT ![CurrentScope].data[key] = None]
    /\ ret' = Nil
    /\ done' = NoDone
    /\ UNCHANGED <<frames, flagVars, dynamic_scope, current_scope, namespaces, pipeVars, jobVars, envVars>>

NewNamespaceInCurrent(name) ==
    [data |-> [k \in Keys |-> None], outer |-> CurrentScope, name |-> name]
\* build_new_namespace: the Scope it makes
NewNamespace(name) ==
    [data |-> [k \in Keys |-> None], outer |-> root_scope, name |-> name]

\* build_new_scope(Some(last)): a lexical scope
NewScope(outer) == [data |-> [k \in Keys |-> None], outer |-> outer, name |-> None]

InNamespaceAlways == TRUE
\* the innermost scope is a namespace: current_scope.last().name.is_some()
InNamespace == scopes[CurrentScope].name # None

NamespaceNeverExists(name) == FALSE
\* build_new_namespace: environment.namespaces.contains_key(name)
NamespaceExists(name) == namespaces[name] # 0

\* (ns-create name); args is "bad" when there is not exactly one argument or
\* it does not evaluate to a symbol or string
builtin_ns_create ==
    /\ Ready
    /\ Len(current_scope) < MaxStack
    /\ \E args \in {"bad", "name"}, name \in NsNames :
        /\ IF ~InNamespace \/ args = "bad" \/ NamespaceExists(name)
           THEN /\ ret' = Err
                /\ UNCHANGED scopeVars
           ELSE /\ scopes' = Append(scopes, NewNamespace(name))
                /\ namespaces' = [namespaces EXCEPT ![name] = Len(scopes) + 1]
                /\ current_scope' = Append(current_scope, Len(scopes) + 1)
                /\ ret' = Nil
        /\ done' = [op |-> "ns-create", args |-> args, name |-> name]
    /\ UNCHANGED <<frames, flagVars, dynamic_scope, pipeVars, jobVars, envVars>>

\* (ns-enter name)
builtin_ns_enter ==
    /\ Ready
    /\ Len(current_scope) < MaxStack
    /\ \E args \in {"bad", "name"}, name \in NsNames :
        /\ IF ~InNamespace \/ args = "bad" \/ namespaces[name] = 0
           THEN /\ ret' = Err
                /\ UNCHANGED current_scope
           ELSE /\ current_scope' = Append(current_scope, namespaces[name])
                /\ ret' = Nil
        /\ done' = [op |-> "ns-enter", args |-> args, name |-> name]
    /\ UNCHANGED <<frames, flagVars, dynamic_scope, scopes, namespaces, pipeVars, jobVars, envVars>>

\* ------------------------------------------------------------ expand-macro
PopScopeTwice(stack) == SubSeq(stack, 1, Len(stack) - 2)
\* environment.current_scope.pop()
PopScope(stack) == SubSeq(stack, 1, Len(stack) - 1)

\* the popped scope is dropped when nothing else refers to it
DropScope(heap, s) == IF s = Len(heap) THEN SubSeq(heap, 1, Len(heap) - 1) ELSE heap

MacroScopeRoot == NewScope(root_scope)
\* do_expansion: build_new_scope(Some(last.clone())), last the innermost scope
MacroScope == NewScope(CurrentScope)

\* (expand-macro (command parts..)): up to the evaluation of the macro body.
\* call is "bad" when the argument is no list headed by a symbol; binds says
\* whether setup_args can bind parts to the macro's parameters
ExpandEnter ==
    /\ CanCall
    /\ UNCHANGED <<flagVars, dynamic_scope, pipeVars, namespaces, jobVars, envVars>>
    /\ \E call \in {"bad", "list"}, command \in Keys, binds \in BOOLEAN :
        IF call = "bad" \/ get_expression(command) # Macro
        THEN /\ ret' = Err
             /\ UNCHANGED <<frames, scopes, current_scope>>
             /\ done' = [op |-> "expand-macro", exit |-> "fail",
                         before |-> current_scope, after |-> current_scope']
        ELSE IF ~binds
        THEN /\ ret' = Err
             /\ current_scope' = PopScope(Append(current_scope, Len(scopes) + 1))
             /\ UNCHANGED <<frames, scopes>>
             /\ done' = [op |-> "expand-macro", exit |-> "fail",
                         before |-> current_scope, after |-> current_scope']
        ELSE /\ scopes' = Append(scopes, MacroScope)
             /\ current_scope' = Append(current_scope, Len(scopes) + 1)
             /\ frames' = Append(frames, [op |-> "expand-macro", left |-> 1,
                                          before |-> current_scope])
             /\ UNCHANGED <<ret, done>>

\* (expand-macro ..): after the macro body returned the expansion or an error
ExpandResume ==
    /\ frames # <<>>
    /\ Top.op = "expand-macro"
    /\ ret # NoRet
    /\ current_scope' = PopScope(current_scope)
    /\ scopes' = DropScope(scopes, CurrentScope)
    /\ frames' = Pop
    /\ done' = [op |-> "expand-macro", exit |-> Exit(ret), before |-> Top.before,
                after |-> current_scope']
    /\ UNCHANGED <<ret, flagVars, dynamic_scope, pipeVars, namespaces, jobVars, envVars>>

\* ---------------------------------------------------------------------- pipe
\* a stage that runs an external command and yields its Process
EvalProcess ==
    /\ Ready
    /\ frames # <<>>
    /\ \E pid \in Pids : ret' \in {Running(pid), Over(pid)}
    /\ done' = NoDone
    /\ UNCHANGED <<frames, flagVars, dynamic_scope, scopeVars, pipeVars, jobVars, envVars>>

\* a stage that yields a file
EvalFile ==
    /\ Ready
    /\ frames # <<>>
    /\ ret' \in {FileRead, FileWrite}
    /\ done' = NoDone
    /\ UNCHANGED <<frames, flagVars, dynamic_scope, scopeVars, pipeVars, jobVars, envVars>>

\* pipe_write_file: TRUE when it returns Ok.  Nothing is written for no data or
\* Nil; atoms, running processes and readable files are written with writef,
\* which can fail (io_ok); any other data is an invalid state
pipe_write_file(data, io_ok) ==
    CASE data = NoData \/ data = Nil -> TRUE
      [] data.kind \in {"atom", "proc", "file_r"} -> io_ok
      [] OTHER -> FALSE

PipeState == [in_pipe |-> in_pipe, stdout_status |-> stdout_status,
              data_in |-> data_in, pipe_pgid |-> pipe_pgid]
\* the Environment fields of the model
EnvFields == <<form_type, loose_symbols, run_background, dynamic_scope, scopes,
               current_scope, namespaces, in_pipe, stdout_status, data_in, pipe_pgid>>

LastStageStatusPipe(old_out_status) == "Pipe"
\* if next_pipe.is_none() { environment.state.stdout_status = old_out_status.clone() }
LastStageStatus(old_out_status) == old_out_status

PipeEndInPipeKeep == in_pipe
\* environment.in_pipe = false, after the loop
PipeEndInPipe == FALSE

PipeEndDataInKeep == data_in
\* environment.data_in = None, after the loop
PipeEndDataIn == NoData

\* the statements after the loop, and the value returned; i stages were
\* evaluated and the last of them returned stage
PipeEnd(result, old_out_status, n, before, i, stage) ==
    /\ data_in' = PipeEndDataIn
    /\ in_pipe' = PipeEndInPipe
    /\ pipe_pgid' = 0
    /\ stdout_status' = old_out_status
    /\ ret' = result
    /\ done' = [op |-> "pipe", exit |-> Exit(result), n |-> n, before |-> before,
                i |-> i, stage |-> stage,
                after |-> [in_pipe |-> in_pipe', stdout_status |-> stdout_status',
                           data_in |-> data_in', pipe_pgid |-> pipe_pgid']]

\* (pipe stage1 .. stagen): up to the evaluation of the first stage
PipeEnter ==
    /\ CanCall
    /\ UNCHANGED <<flagVars, dynamic_scope, scopeVars, jobVars, envVars>>
    /\ \E n \in 0..MaxStages :
        IF in_pipe
        THEN /\ ret' = Err
             /\ UNCHANGED <<frames, pipeVars>>
             /\ done' = [op |-> "pipe", exit |-> "rejected", n |-> n,
                         before |-> stdout_status, after |-> PipeState,
                         same |-> (EnvFields' = EnvFields)]
        ELSE IF n = 0
        THEN /\ PipeEnd(Nil, stdout_status, n, stdout_status, 0, NoRet)
             /\ UNCHANGED frames
        ELSE /\ in_pipe' = (n > 1)
             /\ stdout_status' = IF n = 1 THEN LastStageStatus(stdout_status)
                                 ELSE "Pipe"
             /\ data_in' = Nil
             /\ frames' = Append(frames, [op |-> "pipe", n |-> n, i |-> 1,
                                          old_out_status |-> stdout_status,
                                          before |-> stdout_status])
             /\ UNCHANGED <<ret, done, pipe_pgid>>

ReadFileAnywhere(i) == FALSE
\* if let Ok(Expression::File(FileState::Read(_))) = &res { if i > 1 { error } }
ReadFileMisplaced(i) == i > 1

\* (pipe ..): after stage i returned ret
PipeResume ==
    /\ frames # <<>>
    /\ Top.op = "pipe"
    /\ ret # NoRet
    /\ \E io_ok \in BOOLEAN :
        LET stage_err == \/ ret = Err
                         \/ ret = FileWrite /\ ~pipe_write_file(data_in, io_ok)
                         \/ ret = FileRead /\ ReadFileMisplaced(Top.i)
        IN  IF stage_err
            THEN /\ PipeEnd(Err, Top.old_out_status, Top.n, Top.before, Top.i, ret)
                 /\ frames' = Pop
            ELSE IF Top.i = Top.n
            THEN /\ PipeEnd(ret, Top.old_out_status, Top.n, Top.before, Top.i, ret)
                 /\ frames' = Pop
            ELSE /\ pipe_pgid' = IF ret.kind \in {"proc", "over"} /\ pipe_pgid = 0
                                 THEN ret.pid ELSE pipe_pgid
                 /\ IF Top.i + 1 = Top.n
                    THEN /\ stdout_status' = LastStageStatus(Top.old_out_status)
                         /\ in_pipe' = FALSE
                    ELSE UNCHANGED <<stdout_status, in_pipe>>
                 /\ data_in' = ret
                 /\ frames' = [frames EXCEPT ![Len(frames)].i = @ + 1]
                 /\ ret' = NoRet
                 /\ done' = NoDone
    /\ UNCHANGED <<flagVars, dynamic_scope, scopeVars, jobVars, envVars>>

\* ------------------------------------------------- child processes and jobs
otherVars == <<flagVars, dynamic_scope, scopeVars, pipeVars, envVars>>

IsChild(pid) == pid \in Pids /\ procs[pid] # NoChild

\* environment.procs.borrow_mut().insert(pid, process); out tells whether the
\* Child holds the read end of a pipe on its stdout
add_process(ps, pid, out) == [ps EXCEPT ![pid] = out]

\* procs.remove(&pid)
RemoveProc(ps, pid) == IF pid \in Pids THEN [ps EXCEPT ![pid] = NoChild] ELSE ps

HasPid(job, pid) == \E i \in DOMAIN job.pids : job.pids[i] = pid

\* index of the first job that holds pid, 0 when no job does
JobOf(js, pid) ==
    IF \E i \in DOMAIN js : HasPid(js[i], pid)
    THEN CHOOSE i \in DOMAIN js :
            /\ HasPid(js[i], pid)
            /\ \A k \in 1..(i - 1) : ~HasPid(js[k], pid)
    ELSE 0

RemoveAt(s, i) == SubSeq(s, 1, i - 1) \o SubSeq(s, i + 1, Len(s))

mark_job_stopped(js, pid) ==
    IF JobOf(js, pid) = 0 THEN js ELSE [js EXCEPT ![JobOf(js, pid)].status = "Stopped"]

mark_job_running(js, pid) ==
    IF JobOf(js, pid) = 0 THEN js ELSE [js EXCEPT ![JobOf(js, pid)].status = "Running"]

remove_job(js, pid) ==
    IF JobOf(js, pid) = 0 THEN js ELSE RemoveAt(js, JobOf(js, pid))

\* index of the first occurrence of pid in sp, 0 when there is none
FirstIndex(sp, pid) ==
    IF \E i \in DOMAIN sp : sp[i] = pid
    THEN CHOOSE i \in DOMAIN sp : sp[i] = pid /\ \A k \in 1..(i - 1) : sp[k] # pid
    ELSE 0

StoppedPidOldest(shape, ji) ==
    IF shape = "none"
    THEN IF stopped_procs = <<>> THEN 0 ELSE stopped_procs[1]
    ELSE IF shape = "int" /\ ji < Len(jobs) THEN jobs[ji + 1].pids[1]
    ELSE 0

\* get_stopped_pid: the pid it returns (0 for None).  shape is "none" for no
\* argument, "int" for the job index ji, "other" for any other value
StoppedPid(shape, ji) ==
    IF shape = "none"
    THEN IF stopped_procs = <<>> THEN 0 ELSE stopped_procs[Len(stopped_procs)]
    ELSE IF shape = "int" /\ ji < Len(jobs) THEN jobs[ji + 1].pids[1]
    ELSE 0

\* get_stopped_pid: stopped_procs as it leaves it
StoppedAfter(shape, ji) ==
    IF shape = "none"
    THEN SubSeq(stopped_procs, 1, Len(stopped_procs) - 1)
    ELSE IF shape = "int" /\ ji < Len(jobs) /\ FirstIndex(stopped_procs, StoppedPid(shape, ji)) # 0
    THEN RemoveAt(stopped_procs, FirstIndex(stopped_procs, StoppedPid(shape, ji)))
    ELSE stopped_procs

ArgShapes == {"none", "int", "other", "many"}
JobIndexes == 0..MaxPids

\* an external command or pipeline of n commands is started: n children, one
\* job; the value of the form is the Process of the last child
SpawnJob ==
    /\ Ready
    /\ spawned < MaxPids
    /\ \E n \in 1..(MaxPids - spawned), out \in {"piped", "nopipe"} :
        /\ procs' = [p \in Pids |->
                        IF p \in (spawned + 1)..(spawned + n)
                        THEN add_process(procs, p, IF p = spawned + n THEN out ELSE "nopipe")[p]
                        ELSE procs[p]]
        /\ jobs' = Append(jobs, [pids |-> [i \in 1..n |-> spawned + i], status |-> "Running"])
        /\ spawned' = spawned + n
        /\ ret' = Running(spawned + n)
    /\ done' = NoDone
    /\ UNCHANGED <<frames, otherVars, stopped_procs, blocked, borrowed>>

\* a form that evaluates to an integer
EvalInt ==
    /\ Ready
    /\ frames # <<>>
    /\ \E pid \in Pids : ret' = IntValue(pid)
    /\ done' = NoDone
    /\ UNCHANGED <<frames, otherVars, jobVars, envVars>>

\* (bg) / (bg ji); shape "many" stands for more than one argument or an
\* argument whose evaluation fails
builtin_bg ==
    /\ Ready
    /\ \E shape \in ArgShapes, ji \in JobIndexes, sigcont_ok \in BOOLEAN :
        /\ IF shape = "many"
           THEN /\ ret' = Err
                /\ UNCHANGED <<jobs, stopped_procs>>
           ELSE /\ stopped_procs' = StoppedAfter(shape, ji)
                /\ jobs' = IF StoppedPid(shape, ji) # 0 /\ sigcont_ok
                           THEN mark_job_running(jobs, StoppedPid(shape, ji))
                           ELSE jobs
                /\ ret' = Nil
        /\ done' = [op |-> "bg", exit |-> Exit(ret'), shape |-> shape,
                    pid |-> IF shape = "many" THEN 0 ELSE StoppedPid(shape, ji),
                    sigcont |-> sigcont_ok]
    /\ UNCHANGED <<frames, otherVars, procs, spawned, blocked, borrowed>>

\* (fg) / (fg ji): up to its call of wait_pid
builtin_fg ==
    /\ Ready
    /\ \E shape \in ArgShapes, ji \in JobIndexes, sigcont_ok \in BOOLEAN :
        IF shape = "many"
        THEN /\ ret' = Err
             /\ done' = [op |-> "fg", exit |-> "err", shape |-> shape, pid |-> 0,
                         sigcont |-> sigcont_ok]
             /\ UNCHANGED <<jobs, stopped_procs, blocked>>
        ELSE /\ stopped_procs' = StoppedAfter(shape, ji)
             /\ IF StoppedPid(shape, ji) # 0 /\ sigcont_ok
                THEN /\ jobs' = mark_job_running(jobs, StoppedPid(shape, ji))
                     /\ blocked' = [at |-> "wait_pid", pid |-> StoppedPid(shape, ji),
                                    by |-> "fg", rest |-> {}]
                     /\ UNCHANGED ret
                     /\ done' = [op |-> "wait_pid", exit |-> "blocked", by |-> "fg",
                                 shape |-> shape, pid |-> StoppedPid(shape, ji),
                                 sigcont |-> sigcont_ok]
                ELSE /\ ret' = Nil
                     /\ done' = [op |-> "fg", exit |-> "ok", shape |-> shape,
                                 pid |-> StoppedPid(shape, ji), sigcont |-> sigcont_ok]
                     /\ UNCHANGED <<jobs, blocked>>
    /\ UNCHANGED <<frames, otherVars, procs, spawned, borrowed>>

\* (wait form): up to the evaluation of form
WaitEnter ==
    /\ CanCall
    /\ \E n \in 0..MaxForms :
        IF n # 1
        THEN /\ ret' = Err
             /\ done' = [op |-> "wait", exit |-> "err"]
             /\ UNCHANGED frames
        ELSE /\ frames' = Append(frames, [op |-> "wait", left |-> 1])
             /\ UNCHANGED <<ret, done>>
    /\ UNCHANGED <<otherVars, jobVars, envVars>>

\* the exit status a finished child hands back
ExitStatus == IntValue(0)

\* (wait form): after form was evaluated, up to the call of wait_pid if any
WaitResume ==
    /\ frames # <<>>
    /\ Top.op = "wait"
    /\ ret # NoRet
    /\ IF ret.kind \in {"proc", "int"}
       THEN /\ blocked' = [at |-> "wait_pid", pid |-> ret.pid, by |-> "wait", rest |-> {}]
            /\ ret' = NoRet
            /\ done' = NoDone
            /\ UNCHANGED frames
       ELSE /\ ret' = IF ret.kind = "over" THEN ExitStatus ELSE Err
            /\ done' = [op |-> "wait", exit |-> Exit(ret')]
            /\ frames' = Pop
            /\ UNCHANGED blocked
    /\ UNCHANGED <<otherVars, procs, jobs, stopped_procs, spawned, borrowed>>

\* wait_pid returns.  The child has ended (or pid is no child of the shell):
\* it leaves procs and its job is removed; or the child has stopped: pid is
\* appended to stopped_procs and its job is marked Stopped
WaitPidReturn ==
    /\ blocked.at = "wait_pid"
    /\ \E outcome \in {"exited", "stopped"} :
        /\ outcome = "stopped" => IsChild(blocked.pid) /\ Len(stopped_procs) < MaxStopped
        /\ IF outcome = "exited"
           THEN /\ procs' = RemoveProc(procs, blocked.pid)
                /\ jobs' = remove_job(jobs, blocked.pid)
                /\ UNCHANGED stopped_procs
           ELSE /\ stopped_procs' = Append(stopped_procs, blocked.pid)
                /\ jobs' = mark_job_stopped(jobs, blocked.pid)
                /\ UNCHANGED procs
        /\ ret' = CASE blocked.by = "wait" ->
                         IF outcome = "exited" /\ IsChild(blocked.pid) THEN ExitStatus ELSE Nil
                    [] blocked.by = "fg" -> Nil
                    [] OTHER -> ret
    /\ frames' = IF blocked.by = "wait" THEN Pop ELSE frames
    /\ blocked' = NotBlocked
    /\ done' = [op |-> blocked.by, exit |-> "ok"]
    /\ UNCHANGED <<otherVars, spawned, borrowed>>

\* ------------------------------------------- writef, make_string, reap_procs
\* values handed to writef and make_string
Written == AtomValues \cup {FileRead, FileWrite}
               \cup {Running(p) : p \in Pids} \cup {Over(p) : p \in Pids}

\* exp.writef(environment, writer): up to its first blocking call.  For a
\* Process the procs table is borrowed and, when the child has a stdout pipe,
\* the read loop starts on it; the borrow ends where writef returns early
WritefCall ==
    /\ Ready
    /\ \E v \in Written :
        CASE v.kind \in {"proc", "over"} /\ IsChild(v.pid) /\ procs[v.pid] = "piped" ->
                /\ blocked' = [at |-> "read", pid |-> v.pid, by |-> "writef", rest |-> {}]
                /\ borrowed' = {"procs"}
                /\ done' = NoDone
          [] v.kind \in {"proc", "over"} /\ ~(IsChild(v.pid) /\ procs[v.pid] = "piped") ->
                /\ done' = [op |-> "writef", exit |-> "err"]
                /\ UNCHANGED <<blocked, borrowed>>
          [] v = FileRead ->
                /\ blocked' = [at |-> "read", pid |-> 0, by |-> "writef", rest |-> {}]
                /\ done' = NoDone
                /\ UNCHANGED borrowed
          [] v = FileWrite ->
                /\ done' = [op |-> "writef", exit |-> "err"]
                /\ UNCHANGED <<blocked, borrowed>>
          [] OTHER ->
                /\ done' = [op |-> "writef", exit |-> "ok"]
                /\ UNCHANGED <<blocked, borrowed>>
    /\ UNCHANGED <<frames, ret, otherVars, procs, jobs, stopped_procs, spawned>>

\* exp.make_string(environment): up to its first blocking call.  Only a
\* finished Process is read (pid_to_string), under a borrow of procs
MakeStringCall ==
    /\ Ready
    /\ \E v \in Written :
        CASE v.kind = "over" /\ IsChild(v.pid) /\ procs[v.pid] = "piped" ->
                /\ blocked' = [at |-> "read", pid |-> v.pid, by |-> "make_string", rest |-> {}]
                /\ borrowed' = {"procs"}
                /\ done' = NoDone
          [] v = FileRead ->
                /\ blocked' = [at |-> "read", pid |-> 0, by |-> "make_string", rest |-> {}]
                /\ done' = NoDone
                /\ UNCHANGED borrowed
          [] OTHER ->
                /\ done' = [op |-> "make_string", exit |-> "ok"]
                /\ UNCHANGED <<blocked, borrowed>>
    /\ UNCHANGED <<frames, ret, otherVars, procs, jobs, stopped_procs, spawned>>

\* a blocking read of a child's stdout or of a file returns.  In writef the end
\* of a child's output drops the borrow of procs and goes on to wait_pid
ReadReturn ==
    /\ blocked.at = "read"
    /\ \E r \in {"eof", "err"} :
        IF blocked.by = "writef" /\ blocked.pid # 0 /\ r = "eof"
        THEN /\ blocked' = [blocked EXCEPT !.at = "wait_pid"]
             /\ done' = NoDone
        ELSE /\ blocked' = NotBlocked
             /\ done' = [op |-> blocked.by, exit |-> IF r = "eof" THEN "ok" ELSE "err"]
    /\ borrowed' = {}
    /\ UNCHANGED <<frames, ret, otherVars, procs, jobs, stopped_procs, spawned>>

\* what is left to poll after pid, and the next pid polled (in any order, the
\* keys come out of a HashMap)
ReapNext(rest) ==
    IF rest = {} THEN {NotBlocked}
    ELSE {[at |-> "try_wait", pid |-> p, by |-> "reap_procs", rest |-> rest \ {p}] : p \in rest}

\* reap_procs, called by the interactive loop before it reads a line: the
\* pids are collected under a borrow of procs, the borrow is dropped, then each
\* pid is polled
ReapBegin ==
    /\ Ready
    /\ frames = <<>>
    /\ blocked' \in ReapNext({p \in Pids : IsChild(p)})
    /\ done' = IF blocked' = NotBlocked THEN [op |-> "reap_procs", exit |-> "ok"] ELSE NoDone
    /\ UNCHANGED <<frames, ret, otherVars, procs, jobs, stopped_procs, spawned, borrowed>>

\* try_wait_pid(pid) returns: the child is still running, or it has ended, has
\* left procs and its job is removed
ReapPoll ==
    /\ blocked.at = "try_wait"
    /\ \E outcome \in {"running", "exited"} :
        IF outcome = "exited"
        THEN /\ procs' = RemoveProc(procs, blocked.pid)
             /\ jobs' = remove_job(jobs, blocked.pid)
        ELSE UNCHANGED <<procs, jobs>>
    /\ blocked' \in ReapNext(blocked.rest)
    /\ done' = IF blocked' = NotBlocked THEN [op |-> "reap_procs", exit |-> "ok"] ELSE NoDone
    /\ UNCHANGED <<frames, ret, otherVars, stopped_procs, spawned, borrowed>>

\* ------------------------------------------------ unwind-protect, get-error
\* the messages of the errors a form may return
Msgs == {"m1", "m2"}
\* Err(io::Error) with its message
Error(msg) == [kind |-> "err", pid |-> 0, msg |-> msg]
IsErr(r) == r.kind = "err"

\* Expression::Atom(Atom::Symbol(s)), Expression::Atom(Atom::String(s))
Symbol(s) == [kind |-> "sym", name |-> s, items |-> <<>>]
StringAtom(s) == [kind |-> "str", name |-> s, items |-> <<>>]
\* Expression::with_list(v)
with_list(v) == [kind |-> "vec", name |-> "", items |-> v]

\* (err "msg"): a form that returns an error with a message
EvalError ==
    /\ Ready
    /\ \E msg \in Msgs : ret' = Error(msg)
    /\ done' = NoDone
    /\ UNCHANGED <<frames, flagVars, dynamic_scope, scopeVars, pipeVars, jobVars, envVars>>

\* a form of unwind-protect or get-error may itself be one of the two
CanNest == Ready /\ Len(frames) < MaxNest

UnwindResultLast(result, cleanup) == cleanup
\* the value builtin_unwind_protect returns: result, not the last cleanup's
UnwindResult(result, cleanup) == result

\* unwind-protect with args forms: the protected form, then the cleanup forms
UnwindEnter ==
    /\ CanNest
    /\ \E args \in 0..(MaxForms + 1) :
        IF args = 0
        THEN /\ ret' = Nil
             /\ done' = [op |-> "unwind-protect", args |-> 0, protected |-> Nil,
                         ran |-> 0, failed |-> FALSE]
             /\ UNCHANGED frames
        ELSE /\ frames' = Append(frames, [op |-> "unwind-protect", args |-> args,
                                          result |-> NoRet, ran |-> 0, failed |-> FALSE])
             /\ UNCHANGED <<ret, done>>
    /\ UNCHANGED <<flagVars, dynamic_scope, scopeVars, pipeVars, jobVars, envVars>>

\* a form of unwind-protect has returned: the protected form when no result
\* is held yet, else the next cleanup form, whose error is only reported
UnwindResume ==
    /\ frames # <<>>
    /\ Top.op = "unwind-protect"
    /\ ret # NoRet
    /\ LET first == Top.result = NoRet
           result == IF first THEN ret ELSE Top.result
           ran == IF first THEN 0 ELSE Top.ran + 1
           failed == IF first THEN FALSE ELSE Top.failed \/ IsErr(ret)
       IN  IF ran = Top.args - 1
           THEN /\ frames' = Pop
                /\ ret' = UnwindResult(result, ret)
                /\ done' = [op |-> "unwind-protect", args |-> Top.args,
                            protected |-> result, ran |-> ran, failed |-> failed]
           ELSE /\ frames' = [frames EXCEPT ![Len(frames)].result = result,
                                            ![Len(frames)].ran = ran,
                                            ![Len(frames)].failed = failed]
                /\ ret' = NoRet
                /\ done' = NoDone
    /\ UNCHANGED <<flagVars, dynamic_scope, scopeVars, pipeVars, jobVars, envVars>>

GetErrorResultRaise(err) == err
\* the value builtin_get_error returns for an error: [:error message]
GetErrorResult(err) == with_list(<<Symbol(":error"), StringAtom(err.msg)>>)

\* get-error with n forms; ret starts as Nil
GetErrorEnter ==
    /\ CanNest
    /\ \E n \in 0..MaxForms :
        IF n = 0
        THEN /\ ret' = Nil
             /\ done' = [op |-> "get-error", forms |-> 0, evaluated |-> 0, last |-> Nil]
             /\ UNCHANGED frames
        ELSE /\ frames' = Append(frames, [op |-> "get-error", forms |-> n, left |-> n])
             /\ UNCHANGED <<ret, done>>
    /\ UNCHANGED <<flagVars, dynamic_scope, scopeVars, pipeVars, jobVars, envVars>>

\* a form of get-error has returned
GetErrorResume ==
    /\ frames # <<>>
    /\ Top.op = "get-error"
    /\ ret # NoRet
    /\ IF IsErr(ret) \/ Top.left = 1
       THEN /\ frames' = Pop
            /\ ret' = IF IsErr(ret) THEN GetErrorResult(ret) ELSE ret
            /\ done' = [op |-> "get-error", forms |-> Top.forms,
                        evaluated |-> Top.forms - Top.left + 1, last |-> ret]
       ELSE /\ frames' = [frames EXCEPT ![Len(frames)].left = @ - 1]
            /\ ret' = NoRet
            /\ done' = NoDone
    /\ UNCHANGED <<flagVars, dynamic_scope, scopeVars, pipeVars, jobVars, envVars>>

\* -------------------------------------------------------------------- bquote
\* Expression::cons_from_vec(v): the chain of pairs of the elements of v,
\* ending in Nil; items holds what Expression::iter yields for the chain
cons_from_vec(v) == IF v = <<>> THEN Nil ELSE [kind |-> "pair", name |-> "", items |-> v]
\* Expression::Vector(_) or Expression::Pair(_, _)
IsList(e) == e.kind \in {"vec", "pair"}
Comma == Symbol(",")
CommaAt == Symbol(",@")

\* the elements a template is made of: symbols, the two splice markers, a
\* vector and a pair list holding a splice
Elems == {Symbol("a"), Symbol("c"), Comma, CommaAt, Symbol("b"),
          with_list(<<Symbol("a")>>), cons_from_vec(<<Comma, Symbol("b")>>)}
\* the sequences of at most n elements of S
SeqsUpTo(S, n) == UNION {[1..k -> S] : k \in 0..n}
\* the forms bquote is called on
Templates == {with_list(v) : v \in SeqsUpTo(Elems, MaxLen)}
                \cup {cons_from_vec(v) : v \in SeqsUpTo(Elems, MaxLen)}
                \cup {Symbol("a"), Comma}
\* what the symbol b may be bound to: an atom, a vector, a pair list, an
\* empty vector, or a form whose evaluation fails
BquoteValues == {Symbol("V"), with_list(<<Symbol("x"), Symbol("y")>>),
                 cons_from_vec(<<Symbol("x"), Symbol("y")>>), with_list(<<>>),
                 Error("m1")}

\* a call that returns the value of b: (progn b)
CallB == cons_from_vec(<<Symbol("progn"), Symbol("b")>>)

\* eval of a form inside a template, in an environment that binds only b, to
\* v: the symbol b and the call (progn b) give the value b is bound to, which
\* for a vector is the shared vector itself
EvalForm(form, v) == IF form = Symbol("b") \/ form = CallB THEN v ELSE Error("m2")

SpliceWhole(nl) == <<nl>>
\* for item in new_list: output.push(item)
SpliceItems(nl) == nl.items

\* new_list.borrow_mut().drain(..): what is left in the vector
Drain(nl) == with_list(<<>>)

RECURSIVE replace_commas(_, _, _)
RECURSIVE ReplaceFrom(_, _, _)
\* the body of the for loop of replace_commas for one element, from the loop
\* state st = (output, comma_next, amp_next); st.v is the value b is bound to
\* and st.err the error that ends the loop, Nil while there is none
ReplaceStep(st, element, is_vector) ==
    LET nested == IF IsList(element)
                  THEN replace_commas(element.items, is_vector, st.v)
                  ELSE [kind |-> "replaced", out |-> element, v |-> st.v]
        exp == nested.out
        s1 == [st EXCEPT !.v = nested.v]
    IN  IF IsErr(exp) THEN [s1 EXCEPT !.err = exp]
        ELSE IF exp = Comma THEN [s1 EXCEPT !.comma_next = TRUE]
        ELSE IF exp = CommaAt THEN [s1 EXCEPT !.amp_next = TRUE]
        ELSE IF s1.comma_next
        THEN LET val == EvalForm(exp, s1.v)
             IN  IF IsErr(val) THEN [s1 EXCEPT !.err = val]
                 ELSE [s1 EXCEPT !.output = Append(@, val), !.comma_next = FALSE]
        ELSE IF s1.amp_next
        THEN LET nl == EvalForm(exp, s1.v)
             IN  IF IsErr(nl) THEN [s1 EXCEPT !.err = nl]
                 ELSE IF nl.kind = "vec"
                 THEN [s1 EXCEPT !.output = @ \o SpliceItems(nl), !.amp_next = FALSE,
                                 !.v = IF exp.kind = "sym" THEN @ ELSE Drain(nl)]
                 ELSE IF nl.kind = "pair"
                 THEN [s1 EXCEPT !.output = @ \o SpliceItems(nl), !.amp_next = FALSE]
                 ELSE [s1 EXCEPT !.err = Error(",@ must be applied to a list")]
        ELSE [s1 EXCEPT !.output = Append(@, exp)]

ReplaceFrom(list, st, is_vector) ==
    IF list = <<>> \/ IsErr(st.err) THEN st
    ELSE ReplaceFrom(Tail(list), ReplaceStep(st, Head(list), is_vector), is_vector)

\* replace_commas with b bound to v: out is the Result it returns, v the
\* value b is bound to when it returns
replace_commas(list, is_vector, v) ==
    LET st == ReplaceFrom(list, [kind |-> "loop", output |-> <<>>,
                                 comma_next |-> FALSE, amp_next |-> FALSE,
                                 v |-> v, err |-> Nil],
                          is_vector)
    IN  [kind |-> "replaced",
         out |-> IF IsErr(st.err) THEN st.err
                 ELSE IF is_vector THEN with_list(st.output)
                 ELSE cons_from_vec(st.output),
         v |-> st.v]

\* (bquote arg more...) with b bound to v: more counts the forms after arg
builtin_bquote ==
    /\ Ready
    /\ \E arg \in Templates, v \in BquoteValues, none \in BOOLEAN :
       \E more \in 0..(IF arg = Comma THEN 2 ELSE 1) :
        LET first == IF arg = Comma
                     THEN IF more > 0 THEN EvalForm(Symbol("b"), v) ELSE Nil
                     ELSE IF arg.kind = "vec" THEN replace_commas(arg.items, TRUE, v).out
                     ELSE IF arg.kind = "pair" THEN replace_commas(arg.items, FALSE, v).out
                     ELSE arg
            left == IF arg = Comma /\ more > 0 THEN more - 1 ELSE more
        IN  IF none
            THEN /\ arg = Comma /\ more = 0
                 /\ ret' = Error("bquote takes one form")
                 /\ done' = [op |-> "bquote", args |-> 0, arg |-> Nil, v |-> v]
            ELSE /\ ret' = IF IsErr(first) THEN first
                           ELSE IF left > 0 THEN Error("bquote takes one form")
                           ELSE first
                 /\ done' = [op |-> "bquote", args |-> 1 + more, arg |-> arg, v |-> v]
    /\ UNCHANGED <<frames, flagVars, dynamic_scope, scopeVars, pipeVars, jobVars, envVars>>

\* the elements of the vectors b is bound to
VecItems == {Symbol("x"), Symbol("y")}
\* the templates that splice b: pair lists of at most MaxLen elements
SpliceElems == {Symbol("a"), Comma, CommaAt, Symbol("b"), CallB}
SpliceTemplates == {cons_from_vec(t) : t \in SeqsUpTo(SpliceElems, MaxLen) \ {<<>>}}

\* (def b (vec items..)): b is bound to a new vector
BindVector ==
    /\ Ready
    /\ \E items \in SeqsUpTo(VecItems, 2) : vec_b' = items
    /\ ret' = with_list(vec_b')
    /\ done' = [op |-> "def", exit |-> "ok"]
    /\ UNCHANGED <<frames, flagVars, dynamic_scope, scopeVars, pipeVars, jobVars,
                   exit_code, gensym_count>>

\* (bquote arg) with b bound to the vector vec_b, which the binding shares
\* with every value that eval returns for b
BquoteVector ==
    /\ Ready
    /\ \E arg \in SpliceTemplates :
        LET replaced == replace_commas(arg.items, FALSE, with_list(vec_b))
        IN  /\ ret' = replaced.out
            /\ vec_b' = replaced.v.items
            /\ done' = [op |-> "bquote", args |-> 1, arg |-> arg, v |-> with_list(vec_b)]
    /\ UNCHANGED <<frames, flagVars, dynamic_scope, scopeVars, pipeVars, jobVars,
                   exit_code, gensym_count>>

\* ------------------------------------------------------------------- gensym
\* the symbol format!("gs::{}", n): its text holds "::", which splitn(2, "::")
\* cuts into the namespace part "gs" and the key part n
GensymSymbol(n) == [kind |-> "sym", name |-> [ns |-> "gs", key |-> n], items |-> <<>>]

\* (gensym) / (gensym arg..)
builtin_gensym ==
    /\ Ready
    /\ gensym_count < MaxGensym
    /\ \E args \in 0..1 :
        IF args > 0
        THEN /\ ret' = Err
             /\ UNCHANGED gensym_count
             /\ done' = [op |-> "gensym", exit |-> "err", n |-> 0]
        ELSE /\ gensym_count' = gensym_count + 1
             /\ ret' = GensymSymbol(gensym_count')
             /\ done' = [op |-> "gensym", exit |-> "ok", n |-> gensym_count']
    /\ UNCHANGED <<frames, flagVars, dynamic_scope, scopeVars, pipeVars, jobVars,
                   exit_code, vec_b>>

\* scope.data.insert(key, val)
Insert(data, key, val) ==
    [k \in DOMAIN data \cup {key} |-> IF k = key THEN val ELSE data[k]]

\* (def sym val) with sym a symbol that gensym has returned: the key holds
\* "::", so def looks for a scope named by its namespace part on the outer
\* chain of the current scope
DefGensym ==
    /\ Ready
    /\ \E n \in 1..gensym_count, val \in Vals :
        LET key == GensymSymbol(n).name
            in_scope == ScopeNamed(CurrentScope, DefNamespace(key.ns))
        IN  /\ IF in_scope # 0
               THEN /\ scopes' = [scopes EXCEPT
                                    ![in_scope].data = Insert(@, key.key, val)]
                    /\ ret' = Value(val)
               ELSE /\ ret' = Err
                    /\ UNCHANGED scopes
            /\ done' = [op |-> "def", ns |-> key.ns, key |-> key.key, val |-> val,
                        exit |-> Exit(ret')]
    /\ UNCHANGED <<frames, flagVars, dynamic_scope, current_scope, namespaces, pipeVars,
                   jobVars, envVars>>

\* get_expression for the text of a gensym symbol: no dynamic binding has
\* such a key; the namespace part is looked up in environment.namespaces
GetGensym(n) ==
    LET key == GensymSymbol(n).name
    IN  IF key.ns \notin DOMAIN namespaces THEN None
        ELSE IF namespaces[key.ns] = 0 THEN None
        ELSE IF key.key \notin DOMAIN scopes[namespaces[key.ns]].data THEN None
        ELSE scopes[namespaces[key.ns]].data[key.key]

\* a symbol that gensym has returned is evaluated
LookupGensym ==
    /\ Ready
    /\ \E n \in 1..gensym_count :
        /\ ret' = IF GetGensym(n) = None THEN Err ELSE Value(GetGensym(n))
        /\ done' = [op |-> "lookup", ns |-> "gs", key |-> n, val |-> None]
    /\ UNCHANGED <<frames, flagVars, dynamic_scope, scopeVars, pipeVars, jobVars, envVars>>

\* --------------------------------------------------------------- read_stdin
\* the lines stdin may hold: one that starts with (, one with ', one with neither
Lines == {"(a)", "'b", "c"}
\* input.starts_with('(') || input.starts_with('\'') || input.starts_with('`')
StartsForm(input) == input # <<>> /\ input[1] \in {"(a)", "'b"}
\* the text handed to read(): input itself, or input wrapped in parentheses
mod_input(input) == [wrapped |-> ~StartsForm(input), text |-> input]

\* read_stdin up to its loop: input = String::new()
ReadStdinStart ==
    /\ frames = <<>>
    /\ ret = NoRet
    /\ done = NoDone
    /\ frames' = <<[op |-> "read_stdin", at |-> "read", input |-> <<>>, read |-> 0,
                    line |-> None, parsed |-> mod_input(<<>>)]>>
    /\ done' = [op |-> "read_stdin", exit |-> "none"]
    /\ UNCHANGED <<ret, flagVars, dynamic_scope, scopeVars, pipeVars, jobVars, envVars>>

\* io::stdin().read_line(&mut input): Ok(0) at the end of stdin or an Err end
\* the loop; Ok(n) has appended the line to input, and the text is parsed
ReadLine ==
    /\ frames # <<>>
    /\ Top.op = "read_stdin"
    /\ Top.at = "read"
    /\ ret = NoRet
    /\ \/ /\ frames' = Pop
          /\ done' = [op |-> "read_stdin", exit |-> "return"]
          /\ UNCHANGED <<loose_symbols, stdout_status>>
       \/ /\ Top.read < MaxLines
          /\ \E line \in Lines, parses \in BOOLEAN :
              LET input == Top.input \o <<line>>
              IN  /\ frames' = [frames EXCEPT ![Len(frames)] =
                                   [@ EXCEPT !.input = input, !.read = @ + 1,
                                             !.line = line,
                                             !.at = IF parses THEN "eval" ELSE "read",
                                             !.parsed = mod_input(input)]]
                  /\ loose_symbols' = (parses \/ loose_symbols)
          /\ stdout_status' = None
          /\ done' = NoDone
    /\ UNCHANGED <<ret, form_type, run_background, dynamic_scope, scopeVars, in_pipe,
                   data_in, pipe_pgid, jobVars, envVars>>

\* eval(&mut environment, &ast) of the parsed text returns a value or an error
LineEval ==
    /\ frames # <<>>
    /\ Top.op = "read_stdin"
    /\ Top.at = "eval"
    /\ (EvalValue \/ EvalError)

\* the result is written or reported and the loop goes on to the next read_line
LineResume ==
    /\ frames # <<>>
    /\ Top.op = "read_stdin"
    /\ Top.at = "eval"
    /\ ret # NoRet
    /\ ret' = NoRet
    /\ loose_symbols' = FALSE
    /\ frames' = [frames EXCEPT ![Len(frames)].at = "read"]
    /\ done' = [op |-> "line", read |-> Top.read, parsed |-> Top.parsed]
    /\ UNCHANGED <<form_type, run_background, dynamic_scope, scopeVars, pipeVars, jobVars, envVars>>

\* -------------------------------------------------- exit, start_interactive
\* the integers exit is given
ExitCodes == {0, 1, 2}

\* (exit) / (exit n): shape "none" for no argument, "int" for the integer n,
\* "other" for any other value, "many" for more than one argument or an
\* argument whose evaluation fails
builtin_exit ==
    /\ Ready
    /\ \E shape \in ArgShapes, n \in ExitCodes :
        /\ shape # "int" => n = 0
        /\ IF shape \in {"none", "int"}
           THEN /\ exit_code' = SomeCode(n)
                /\ ret' = Nil
           ELSE /\ ret' = Err
                /\ UNCHANGED exit_code
        /\ done' = [op |-> "exit", exit |-> Exit(ret'), shape |-> shape, n |-> n]
    /\ UNCHANGED <<frames, flagVars, dynamic_scope, scopeVars, pipeVars, jobVars,
                   gensym_count, vec_b>>

\* start_interactive up to its loop
InteractiveStart ==
    /\ frames = <<>>
    /\ ret = NoRet
    /\ done = NoDone
    /\ frames' = <<[op |-> "start_interactive", at |-> "top", read |-> 0]>>
    /\ done' = [op |-> "start_interactive", exit |-> "none"]
    /\ UNCHANGED <<ret, otherVars, jobVars>>

\* the interactive loop is in its step at: "top" before stdout_status is
\* reset and reap_procs is called, "read" before con.read_line, "eval"
\* while the line is evaluated
InLoop(at) ==
    /\ frames # <<>>
    /\ Top.op = "start_interactive"
    /\ Top.at = at
    /\ ret = NoRet
    /\ blocked = NotBlocked

\* the head of the loop: stdout_status = None, the prompt, reap_procs
LoopTop ==
    /\ InLoop("top")
    /\ stdout_status' = None
    /\ blocked' \in ReapNext({p \in Pids : IsChild(p)})
    /\ frames' = [frames EXCEPT ![Len(frames)].at = "read"]
    /\ done' = IF blocked' = NotBlocked THEN [op |-> "reap_procs", exit |-> "ok"] ELSE NoDone
    /\ UNCHANGED <<ret, flagVars, dynamic_scope, scopeVars, in_pipe, data_in, pipe_pgid,
                   procs, jobs, stopped_procs, spawned, borrowed, envVars>>

\* con.read_line returns: a line that parses (and is evaluated), a line that
\* is empty or does not parse, an interrupt or another error, or the end of
\* the input, which alone ends the loop
LoopRead ==
    /\ InLoop("read")
    /\ \E got \in {"form", "skip", "eof"} :
        /\ got = "form" => Top.read < MaxPrompts
        /\ frames' = CASE got = "form" ->
                              [frames EXCEPT ![Len(frames)].at = "eval",
                                             ![Len(frames)].read = @ + 1]
                       [] got = "skip" -> [frames EXCEPT ![Len(frames)].at = "top"]
                       [] OTHER -> Pop
        /\ loose_symbols' = ((got = "form") \/ loose_symbols)
        /\ done' = [op |-> "read_line", exit |-> got]
    /\ UNCHANGED <<ret, form_type, run_background, dynamic_scope, scopeVars, pipeVars,
                   jobVars, envVars>>

\* eval(&mut environment, &ast) of the line: a value, an error, a command
\* that is started, or a call of exit
LoopEval ==
    /\ InLoop("eval")
    /\ \/ EvalValue
       \/ EvalErr
       \/ SpawnJob
       \/ builtin_exit

\* eval(&mut environment, &ast) of a line of job control is in progress and
\* may start on its next form: a value, a command that is started, or a call
\* of fg, wait or pipe
LoopJobs ==
    /\ frames # <<>>
    /\ Top.op = "start_interactive" => Top.at = "eval"
    /\ \/ EvalValue
       \/ EvalProcess
       \/ SpawnJob
       \/ builtin_fg
       \/ WaitEnter
       \/ PipeEnter

\* the result is printed or reported, loose_symbols = false, and the loop
\* goes round
LoopResume ==
    /\ frames # <<>>
    /\ Top.op = "start_interactive"
    /\ Top.at = "eval"
    /\ ret # NoRet
    /\ ret' = NoRet
    /\ loose_symbols' = FALSE
    /\ frames' = [frames EXCEPT ![Len(frames)].at = "top"]
    /\ done' = [op |-> "line", exit |-> Exit(ret)]
    /\ UNCHANGED <<form_type, run_background, dynamic_scope, scopeVars, pipeVars,
                   jobVars, envVars>>

\* ------------------------------------------------------------ specifications
Init ==
    /\ frames = <<>>
    /\ ret = NoRet
    /\ done = NoDone
    /\ form_type = "Any"
    /\ loose_symbols = FALSE
    /\ run_background = FALSE
    /\ dynamic_scope = [k \in Keys |-> None]
    /\ scopes = <<RootScope>>
    /\ current_scope = <<root_scope>>
    /\ namespaces = [n \in NsNames |-> IF n = "root" THEN root_scope ELSE 0]
    /\ in_pipe = FALSE
    /\ stdout_status = None
    /\ data_in = NoData
    /\ pipe_pgid = 0
    /\ procs = [p \in Pids |-> NoChild]
    /\ jobs = <<>>
    /\ stopped_procs = <<>>
    /\ spawned = 0
    /\ blocked = NotBlocked
    /\ borrowed = {}
    /\ exit_code = NoCode
    /\ gensym_count = 0
    /\ vec_b = <<Symbol("x"), Symbol("y")>>

NextFlags ==
    \/ EvalValue
    \/ EvalErr
    \/ TopResume
    \/ CommandEnter
    \/ CommandResume
    \/ FormEnter
    \/ FormResume
    \/ LooseEnter
    \/ LooseResume
    \/ RunBgEnter
    \/ RunBgResume

SpecFlags == Init /\ [][NextFlags]_vars

NextDyn ==
    \/ EvalValue
    \/ EvalErr
    \/ TopResume
    \/ builtin_set
    \/ DynEnter
    \/ DynResume

SpecDyn == Init /\ [][NextDyn]_vars

NextPipe ==
    \/ EvalValue
    \/ EvalErr
    \/ EvalProcess
    \/ EvalFile
    \/ TopResume
    \/ PipeEnter
    \/ PipeResume

SpecPipe == Init /\ [][NextPipe]_vars

NextScope ==
    \/ EvalValue
    \/ EvalErr
    \/ TopResume
    \/ builtin_def
    \/ builtin_set
    \/ builtin_undef
    \/ builtin_ns_create
    \/ builtin_ns_enter
    \/ ExpandEnter
    \/ ExpandResume
    \/ DynEnterDef
    \/ DynResume
    \/ LookupSymbol
    \/ overwrite_expression

SpecScope == Init /\ [][NextScope]_vars

NextProcs ==
    \/ EvalValue
    \/ EvalErr
    \/ EvalProcess
    \/ EvalInt
    \/ TopResume
    \/ SpawnJob
    \/ builtin_bg
    \/ builtin_fg
    \/ WaitEnter
    \/ WaitResume
    \/ WaitPidReturn
    \/ WritefCall
    \/ MakeStringCall
    \/ ReadReturn
    \/ ReapBegin
    \/ ReapPoll

SpecProcs == Init /\ [][NextProcs]_vars

\* job control only: commands are started, waited for, stopped and resumed
NextJobs ==
    \/ SpawnJob
    \/ TopResume
    \/ builtin_bg
    \/ builtin_fg
    \/ WaitEnter
    \/ WaitResume
    \/ WaitPidReturn

SpecJobs == Init /\ [][NextJobs]_vars

NextErr ==
    \/ EvalValue
    \/ EvalError
    \/ TopResume
    \/ UnwindEnter
    \/ UnwindResume
    \/ GetErrorEnter
    \/ GetErrorResume

SpecErr == Init /\ [][NextErr]_vars

NextBquote ==
    \/ builtin_bquote
    \/ TopResume

SpecBquote == Init /\ [][NextBquote]_vars

NextSplice ==
    \/ BindVector
    \/ BquoteVector
    \/ TopResume

SpecSplice == Init /\ [][NextSplice]_vars

NextGensym ==
    \/ builtin_gensym
    \/ DefGensym
    \/ LookupGensym
    \/ TopResume
    \/ builtin_ns_create
    \/ builtin_ns_enter

SpecGensym == Init /\ [][NextGensym]_vars

NextStdin ==
    \/ ReadStdinStart
    \/ ReadLine
    \/ LineEval
    \/ LineResume

SpecStdin == Init /\ [][NextStdin]_vars

NextShell ==
    \/ InteractiveStart
    \/ LoopTop
    \/ ReapPoll
    \/ LoopRead
    \/ LoopEval
    \/ LoopResume

SpecShell == Init /\ [][NextShell]_vars

NextReap ==
    \/ InteractiveStart
    \/ LoopTop
    \/ ReapPoll
    \/ LoopRead
    \/ LoopJobs
    \/ LoopResume
    \/ WaitResume
    \/ WaitPidReturn
    \/ PipeResume

SpecReap == Init /\ [][NextReap]_vars

\* -------------------------------------------------------------------- claims
\* C1: after a (dyn s v body) call the dynamic binding of s is what it was
\* before the call, on every exit path (value, error, failed call).
DynRestoresBinding == done.op = "dyn" => done.after = done.before

\* C2: command, form and loose-symbols leave the flag they set (form_type,
\* loose_symbols) as it was on entry, on every exit path and at any nesting.
FlagFormsRestore ==
    done.op \in {"command", "form", "loose-symbols"} => done.after = done.before

\* a form call nested in a command body has exited with an error
FlagFormsRestoreWitness ==
    /\ done.op = "form"
    /\ done.exit = "err"
    /\ done.before = "ExternalOnly"
    /\ frames # <<>>

\* C3: run-bg leaves run_background as it was on entry; after a nested
\* run-bg returns, the outer run-bg body still runs with run_background true.
RunBgRestores == done.op = "run-bg" => done.after = done.before

PipeFrames == {i \in DOMAIN frames : frames[i].op = "pipe"}

\* C5: a pipe form evaluated while another pipe call is active (in any of its
\* stages) is rejected with an error, and the rejected call changes nothing.
NestedPipeRejected ==
    /\ Cardinality(PipeFrames) <= 1
    /\ done.op = "pipe" /\ PipeFrames # {} =>
            done.exit = "rejected" /\ done.same

StageStdoutStatus ==
    frames # <<>> /\ Top.op = "pipe" /\ Ready =>
        stdout_status = IF Top.i < Top.n THEN "Pipe" ELSE Top.before

\* the last of three stages is about to be evaluated
StageStdoutStatusWitness ==
    /\ frames # <<>>
    /\ Top.op = "pipe"
    /\ Ready
    /\ Top.n = 3
    /\ Top.i = 3
    /\ stdout_status = None

\* C9: the scope stack is never empty and its bottom element is the root
\* scope, the namespace named "root".
ScopeStackRooted ==
    /\ Len(current_scope) >= 1
    /\ current_scope[1] = root_scope
    /\ scopes[root_scope].name = "root"

\* a macro expansion has failed after a namespace was created and entered
ScopeStackRootedWitness ==
    /\ done.op = "expand-macro"
    /\ done.exit = "err"
    /\ Len(current_scope) = 3
    /\ namespaces["a"] # 0

Registered == {n \in NsNames : namespaces[n] # 0}

\* C10 as stated: every registered namespace, "root" included, has the root
\* scope as parent and its registry key as name.
RegistryParentIsRoot ==
    \A n \in Registered :
        /\ scopes[namespaces[n]].outer = root_scope
        /\ scopes[namespaces[n]].name = n

\* C10 amended: every registered namespace has its registry key as name; the
\* parent of every one but "root" is the root scope, and "root" has no parent.
RegistryWellFormed ==
    \A n \in Registered :
        /\ scopes[namespaces[n]].name = n
        /\ scopes[namespaces[n]].outer = IF n = "root" THEN 0 ELSE root_scope

\* two namespaces were created, the second from inside the first
RegistryWellFormedWitness ==
    /\ namespaces["a"] # 0
    /\ namespaces["b"] # 0
    /\ namespaces["a"] < namespaces["b"]
    /\ current_scope = <<root_scope, namespaces["a"], namespaces["b"]>>

\* C4: after a bg, fg or wait call has returned, every pid in stopped_procs
\* belongs to a job whose status is Stopped.
StoppedPidsInStoppedJob ==
    done.op \in {"bg", "fg", "wait"} =>
        \A i \in DOMAIN stopped_procs :
            \E j \in DOMAIN jobs :
                HasPid(jobs[j], stopped_procs[i]) /\ jobs[j].status = "Stopped"

\* C8: while the interpreter is at a blocking call (a read of a child's
\* stdout, wait_pid, a poll of reap_procs) no borrow of procs, jobs or
\* stopped_procs is live.
NoBorrowWhileBlocked == blocked # NotBlocked => borrowed = {}

\* the outer chain of scope s, innermost first
RECURSIVE OuterChain(_)
OuterChain(s) == IF s = 0 THEN <<>> ELSE <<s>> \o OuterChain(scopes[s].outer)

\* the first scope of a chain that binds key k, 0 when none does
NearestBinder(chain, k) ==
    IF \E i \in DOMAIN chain : scopes[chain[i]].data[k] # None
    THEN chain[CHOOSE i \in DOMAIN chain :
                   /\ scopes[chain[i]].data[k] # None
                   /\ \A j \in 1..(i - 1) : scopes[chain[j]].data[k] = None]
    ELSE 0

\* the first scope of a chain whose name is ns, 0 when none has it
NearestNamed(chain, ns) ==
    IF \E i \in DOMAIN chain : scopes[chain[i]].name = ns
    THEN chain[CHOOSE i \in DOMAIN chain :
                   /\ scopes[chain[i]].name = ns
                   /\ \A j \in 1..(i - 1) : scopes[chain[j]].name # ns]
    ELSE 0

\* the scopes after the step equal the scopes before it, but for key k of scope t
OnlyWritten(t, k, v) ==
    /\ DOMAIN scopes' = DOMAIN scopes
    /\ \A s \in DOMAIN scopes :
        /\ scopes'[s].outer = scopes[s].outer
        /\ scopes'[s].name = scopes[s].name
        /\ \A kk \in Keys :
            scopes'[s].data[kk] = IF s = t /\ kk = k THEN v ELSE scopes[s].data[kk]

\* a step of one of the operations ops on an unqualified key that is bound
\* dynamically writes the dynamic binding and no scope
WritesShadowed(ops) ==
    ret = NoRet /\ done'.op \in ops /\ done'.ns = None /\ dynamic_scope[done'.key] # None
        => /\ dynamic_scope' = [dynamic_scope EXCEPT ![done'.key] = done'.val]
           /\ scopes' = scopes

ReadsShadowed ==
    /\ \A k \in Keys : dynamic_scope[k] # None => get_expression(k) = dynamic_scope[k]
    /\ done.op = "lookup" /\ done.ns = None /\ dynamic_scope[done.key] # None
            => ret = Value(dynamic_scope[done.key])

\* C11 as stated: while k is bound dynamically a lookup of k yields the
\* dynamic value, and set, def and overwrite_expression of k write the dynamic
\* binding and leave every lexical binding unchanged.
DynamicShadowsAllWrites ==
    [][ReadsShadowed' /\ WritesShadowed({"set", "def", "overwrite"})]_vars

\* C11 amended: while k is bound dynamically a lookup of k yields the dynamic
\* value, and set and overwrite_expression of k write the dynamic binding and
\* leave every lexical binding unchanged; def never writes the dynamic map.
DynamicShadows ==
    [][/\ ReadsShadowed'
       /\ WritesShadowed({"set", "overwrite"})
       /\ (ret = NoRet /\ done'.op = "def" => dynamic_scope' = dynamic_scope)]_vars

\* set has written a dynamic binding while a scope binds the key to another value
DynamicShadowsWitness ==
    /\ done.op = "set"
    /\ dynamic_scope[done.key] = done.val
    /\ \E s \in DOMAIN scopes : scopes[s].data[done.key] \notin {None, done.val}

\* C12: set writes the dynamic binding of the key if there is one, else the
\* nearest scope on the outer chain of the current scope that binds the key,
\* and nothing else; when the key is bound nowhere it returns an error and
\* changes neither a scope nor the dynamic map.
SetWritesExistingBinding ==
    [][ret = NoRet /\ done'.op = "set" =>
        LET k == done'.key
            v == done'.val
            near == NearestBinder(OuterChain(current_scope[Len(current_scope)]), k)
        IN  /\ current_scope' = current_scope
            /\ namespaces' = namespaces
            /\ IF dynamic_scope[k] # None
               THEN /\ dynamic_scope' = [dynamic_scope EXCEPT ![k] = v]
                    /\ scopes' = scopes
                    /\ ret' = Value(v)
               ELSE IF near # 0
               THEN /\ dynamic_scope' = dynamic_scope
                    /\ OnlyWritten(near, k, v)
                    /\ ret' = Value(v)
               ELSE /\ dynamic_scope' = dynamic_scope
                    /\ scopes' = scopes
                    /\ ret' = Err]_vars

\* set inside a lexical scope has written the binding of an outer scope
SetWritesExistingBindingWitness ==
    /\ done.op = "set"
    /\ ret = Value(done.val)
    /\ dynamic_scope[done.key] = None
    /\ scopes[CurrentScope].name = None
    /\ scopes[CurrentScope].data[done.key] = None
    /\ scopes[scopes[CurrentScope].outer].data[done.key] = done.val

NsOpsNeedNamespace ==
    [][ret = NoRet /\ done'.op \in {"ns-create", "ns-enter"} =>
        /\ ret' # Err => scopes[current_scope[Len(current_scope)]].name # None
        /\ scopes[current_scope[Len(current_scope)]].name = None =>
                /\ ret' = Err
                /\ current_scope' = current_scope
                /\ namespaces' = namespaces]_vars

\* ns-enter of a registered namespace failed inside a macro expansion
NsOpsNeedNamespaceWitness ==
    /\ done.op = "ns-enter"
    /\ done.args = "name"
    /\ namespaces[done.name] # 0
    /\ ret = Err
    /\ scopes[CurrentScope].name = None

\* C16: in a namespace scope, ns-create n registers a new scope named n with
\* parent root and pushes it when n is not registered, and fails with registry
\* and stack unchanged when it is; ns-enter n pushes the registered scope of n
\* and fails with the stack unchanged when n is not registered.
NsCreateEnter ==
    [][(/\ ret = NoRet
        /\ done'.op \in {"ns-create", "ns-enter"}
        /\ done'.args = "name"
        /\ scopes[current_scope[Len(current_scope)]].name # None) =>
        LET n == done'.name
            new == Len(scopes) + 1
        IN  IF done'.op = "ns-create"
            THEN IF namespaces[n] = 0
                 THEN /\ ret' # Err
                      /\ namespaces' = [namespaces EXCEPT ![n] = new]
                      /\ Len(scopes') = new
                      /\ scopes'[new].name = n
                      /\ scopes'[new].outer = root_scope
                      /\ current_scope' = Append(current_scope, new)
                 ELSE /\ ret' = Err
                      /\ namespaces' = namespaces
                      /\ current_scope' = current_scope
            ELSE IF namespaces[n] # 0
                 THEN /\ ret' # Err
                      /\ current_scope' = Append(current_scope, namespaces[n])
                      /\ namespaces' = namespaces
                 ELSE /\ ret' = Err
                      /\ current_scope' = current_scope
                      /\ namespaces' = namespaces]_vars

\* ns-create "root" failed while another namespace was current
NsCreateEnterWitness ==
    /\ done.op = "ns-create"
    /\ done.args = "name"
    /\ done.name = "root"
    /\ ret = Err
    /\ Len(current_scope) = 2
    /\ scopes[CurrentScope].name = "a"

\* C17: unwind-protect evaluates all of its cleanup forms after the protected
\* form, whatever the protected form and the earlier cleanup forms returned,
\* and returns the value or the error of the protected form.
UnwindProtect ==
    /\ done.op = "unwind-protect" /\ done.args > 0 =>
        /\ done.ran = done.args - 1
        /\ ret = done.protected
    /\ \A i \in DOMAIN frames :
        frames[i].op = "unwind-protect" /\ frames[i].result # NoRet =>
            frames[i].ran < frames[i].args - 1

\* the protected form and one of two cleanup forms returned errors
UnwindProtectWitness ==
    /\ done.op = "unwind-protect"
    /\ done.args = 3
    /\ done.failed
    /\ done.protected = Error("m1")
    /\ ret = Error("m1")

\* C18: get-error never returns an error. A form that returns an error ends
\* it at once with [:error message]; when the last form returns a value that
\* value is returned; with no forms it returns Nil.
GetError ==
    [][/\ done'.op = "get-error" => ~IsErr(ret')
       /\ ret = NoRet /\ done'.op = "get-error" => ret' = Nil
       /\ (frames # <<>> /\ ret # NoRet /\ frames[Len(frames)].op = "get-error") =>
            IF IsErr(ret)
            THEN /\ frames' = SubSeq(frames, 1, Len(frames) - 1)
                 /\ ret' = with_list(<<Symbol(":error"), StringAtom(ret.msg)>>)
            ELSE IF frames[Len(frames)].left = 1
            THEN /\ frames' = SubSeq(frames, 1, Len(frames) - 1)
                 /\ ret' = ret
            ELSE /\ Len(frames') = Len(frames)
                 /\ frames'[Len(frames)].left = frames[Len(frames)].left - 1
                 /\ ret' = NoRet]_vars

\* the first of two forms returned an error and the second was not evaluated
GetErrorWitness ==
    /\ done.op = "get-error"
    /\ done.forms = 2
    /\ done.evaluated = 1
    /\ done.last = Error("m2")
    /\ ret = with_list(<<Symbol(":error"), StringAtom("m2")>>)

\* no symbol , or ,@ occurs in e, at any depth
RECURSIVE CommaFree(_)
CommaFree(e) ==
    /\ e \notin {Comma, CommaAt}
    /\ IsList(e) => \A i \in DOMAIN e.items : CommaFree(e.items[i])

\* C19: bquote of one expression that holds no , and no ,@ returns an
\* expression structurally equal to it, nested vectors and pair lists included.
BquoteIdentity ==
    done.op = "bquote" /\ done.args = 1 /\ CommaFree(done.arg) => ret = done.arg

\* every marker of the template t is followed by a form that is no marker
WellFormed(t) ==
    /\ \A i \in DOMAIN t : t[i] \in {Comma, CommaAt} =>
            i < Len(t) /\ t[i + 1] \notin {Comma, CommaAt}

\* a splice of the template t, or of a list nested in it, fails
RECURSIVE SpliceFails(_, _)
SpliceFails(t, v) ==
    \/ \E i \in 2..Len(t) :
        \/ t[i - 1] = Comma /\ IsErr(EvalForm(t[i], v))
        \/ t[i - 1] = CommaAt /\ ~IsList(EvalForm(t[i], v))
    \/ \E i \in DOMAIN t : IsList(t[i]) /\ SpliceFails(t[i].items, v)

\* a list nested in a template, whose rewriting the splice laws leave open
NestedList == [kind |-> "nested"]
\* the elements the splice laws give for the template t: ,b gives the value
\* of b, ,@b the elements of the value of b, each other element itself
RECURSIVE Spliced(_, _)
Spliced(t, v) ==
    IF t = <<>> THEN <<>>
    ELSE IF Head(t) = Comma THEN <<EvalForm(t[2], v)>> \o Spliced(Tail(Tail(t)), v)
    ELSE IF Head(t) = CommaAt THEN EvalForm(t[2], v).items \o Spliced(Tail(Tail(t)), v)
    ELSE IF IsList(Head(t)) THEN <<NestedList>> \o Spliced(Tail(t), v)
    ELSE <<Head(t)>> \o Spliced(Tail(t), v)

StdinLineOnce ==
    \A i \in DOMAIN frames :
        frames[i].op = "read_stdin" /\ frames[i].at = "eval" =>
            frames[i].parsed.text = <<frames[i].line>>

\* C22: a successful exit n leaves the pending exit code n (0 without an
\* argument), and once an exit code is pending the interactive loop reads no
\* further line.
ExitTerminates ==
    [][/\ ret = NoRet /\ done'.op = "exit" /\ done'.exit = "ok" =>
            exit_code' = SomeCode(done'.n)
       /\ exit_code.some => done'.op # "read_line" \/ done'.exit = "eof"]_vars

\* C23: reap_procs has just run when the interactive loop reads a line and
\* when fg or wait start to block on a process, and once a pipe call has
\* returned the next thing to run is reap_procs, at once or after the result
\* of the line was printed.
ReapPoints ==
    [][/\ InLoop("read") => done.op = "reap_procs"
       /\ blocked.at # "wait_pid" /\ blocked'.at = "wait_pid" => done.op = "reap_procs"
       /\ done.op = "pipe" /\ done.exit # "rejected" =>
            \/ done'.op \in {"pipe", "line", "reap_procs"}
            \/ blocked'.by = "reap_procs"]_vars


\* C24: a stage other than the first that yields a file open for reading ends
\* the pipe call with an error at once; such a file from the first stage is
\* passed on, or returned when it is the only stage; a pipe call of several
\* stages that returns a value did not end on such a file.
PipeReadFile ==
    [][/\ (frames # <<>> /\ Top.op = "pipe" /\ ret = FileRead) =>
            IF Top.i > 1
            THEN ret' = Err /\ frames' = Pop
            ELSE IF Top.n = 1
            THEN ret' = FileRead /\ frames' = Pop
            ELSE /\ ret' = NoRet
                 /\ Len(frames') = Len(frames)
                 /\ frames'[Len(frames)].i = 2
                 /\ data_in' = FileRead
       /\ (done'.op = "pipe" /\ done'.exit = "ok" /\ done'.n > 1) =>
            done'.stage # FileRead]_vars

\* the second of three stages yielded a file open for reading: the call has
\* returned an error
PipeReadFileWitness ==
    /\ done.op = "pipe"
    /\ done.exit = "err"
    /\ done.n = 3
    /\ done.i = 2
    /\ done.stage = FileRead
    /\ ret = Err

\* C25: pipe_pgid is unset when a pipe call starts on its stages; after a
\* stage it is the pid of that stage's Process when it was unset and the
\* stage yielded one, and else what it was; nothing but the stages of the
\* innermost pipe call changes it while a pipe call is active; it is unset
\* when a pipe call has returned.
PipePgid ==
    [][/\ (Len(frames') > Len(frames) /\ frames'[Len(frames')].op = "pipe") =>
            pipe_pgid = 0 /\ pipe_pgid' = 0
       /\ (/\ frames # <<>> /\ Top.op = "pipe" /\ ret # NoRet
           /\ Len(frames') = Len(frames)) =>
            pipe_pgid' = IF pipe_pgid = 0 /\ ret.kind \in {"proc", "over"}
                         THEN ret.pid ELSE pipe_pgid
       /\ (/\ PipeFrames # {}
           /\ ~(Top.op = "pipe" /\ ret # NoRet)) =>
            pipe_pgid' = pipe_pgid
       /\ (PipeFrames = {} /\ frames' = frames) => pipe_pgid' = 0]_vars

\* C26: bg and fg called with no argument take the last pid of stopped_procs
\* and remove that one entry; when SIGCONT was sent successfully the first job
\* that holds the pid is marked Running and no other job changes, otherwise
\* jobs is left alone; with stopped_procs empty nothing changes and the call
\* returns Nil.
BgFgLatest ==
    [][(/\ ret = NoRet
        /\ blocked = NotBlocked
        /\ \/ done'.op \in {"bg", "fg"}
           \/ done'.op = "wait_pid" /\ done'.exit = "blocked"
        /\ done'.shape = "none") =>
            IF stopped_procs = <<>>
            THEN /\ ret' = Nil
                 /\ done'.pid = 0
                 /\ UNCHANGED <<jobs, stopped_procs, procs, blocked>>
            ELSE LET pid == stopped_procs[Len(stopped_procs)]
                 IN  /\ done'.pid = pid
                     /\ stopped_procs' = SubSeq(stopped_procs, 1, Len(stopped_procs) - 1)
                     /\ Len(jobs') = Len(jobs)
                     /\ \A j \in DOMAIN jobs :
                            jobs'[j] = IF done'.sigcont /\ j = JobOf(jobs, pid)
                                       THEN [jobs[j] EXCEPT !.status = "Running"]
                                       ELSE jobs[j]
                     /\ done'.op = "bg" => ret' = Nil]_vars

\* bg without an argument woke the later of two stopped pids: its job runs
\* again and the earlier pid is still in stopped_procs
BgFgLatestWitness ==
    /\ done.op = "bg"
    /\ done.shape = "none"
    /\ done.sigcont
    /\ done.pid = 2
    /\ stopped_procs = <<1>>
    /\ JobOf(jobs, 2) # 0
    /\ jobs[JobOf(jobs, 2)].status = "Running"


\* C27: expand-macro pushes one new scope, without a name and with the
\* caller's innermost scope as parent, for the evaluation of the macro body;
\* when the call returns, after a failed binding of the parameters, an error
\* of the body or an expansion, the scope stack is the one the call found,
\* and what the body returned is the result of the call as it is.
ExpandScope ==
    [][/\ (Len(frames') > Len(frames) /\ frames'[Len(frames')].op = "expand-macro") =>
            /\ current_scope' = Append(current_scope, Len(scopes'))
            /\ Len(scopes') = Len(scopes) + 1
            /\ scopes'[Len(scopes')].outer = CurrentScope
            /\ scopes'[Len(scopes')].name = None
            /\ frames'[Len(frames')].before = current_scope
       /\ (frames # <<>> /\ Top.op = "expand-macro" /\ ret # NoRet) =>
            /\ frames' = Pop
            /\ ret' = ret
            /\ current_scope' = Top.before
            /\ done'.op = "expand-macro"
       /\ (ret = NoRet /\ done'.op = "expand-macro") =>
            /\ ret' = Err
            /\ current_scope' = current_scope]_vars

\* inside a namespace a macro was expanded: the body returned a value
ExpandScopeWitness ==
    /\ done.op = "expand-macro"
    /\ done.exit = "ok"
    /\ ret \in AtomValues
    /\ Len(done.before) = 2
    /\ done.after = done.before
    /\ current_scope = done.before


\* C28: a bquote call that returns a value leaves the vector b is bound to
\* as it was, and the same template evaluated again gives the same value.
SplicePreserves ==
    [][(ret = NoRet /\ done'.op = "bquote" /\ ~IsErr(ret')) =>
            /\ vec_b' = vec_b
            /\ replace_commas(done'.arg.items, FALSE, with_list(vec_b')).out = ret']_vars


\* C29: gensym returns a symbol with a number above that of every symbol it
\* returned before, and def of a symbol that gensym returned binds it: the
\* call returns the value and a lookup of the symbol then finds that value.
GensymUsable ==
    [][/\ (ret = NoRet /\ done'.op = "gensym" /\ done'.exit = "ok") =>
            /\ gensym_count' > gensym_count
            /\ ret' = GensymSymbol(gensym_count')
            /\ \A n \in 1..gensym_count : ret' # GensymSymbol(n)
       /\ (ret = NoRet /\ done'.op = "def" /\ done'.ns = "gs") =>
            /\ ret' = Value(done'.val)
            /\ \A n \in 1..MaxGensym : done'.key = n => GetGensym(n)' = done'.val]_vars


\* C30: a pipe call that was not rejected returns with stdout_status as it
\* was on entry, data_in None and pipe_pgid None, whether it returns a value
\* after its last stage or an error; a stage that fails is the last one
\* evaluated: the call returns the error in the same step.
PipeExit ==
    [][/\ (done'.op = "pipe" /\ done'.exit # "rejected") =>
            /\ done'.after.stdout_status = done'.before
            /\ done'.after.data_in = NoData
            /\ done'.after.pipe_pgid = 0
            /\ done'.i <= done'.n
            /\ done'.exit = "ok" => done'.i = done'.n
       /\ (frames # <<>> /\ Top.op = "pipe" /\ ret # NoRet /\ (ret = Err \/ ret' = Err)) =>
            /\ ret' = Err
            /\ frames' = Pop
            /\ done'.op = "pipe"
            /\ done'.exit = "err"
            /\ done'.i = Top.i
            /\ stdout_status' = Top.before
            /\ data_in' = NoData
            /\ pipe_pgid' = 0]_vars

\* the second of three stages has failed after the first yielded a Process:
\* the call has returned at the top level and the pipe state is reset
PipeExitWitness ==
    /\ done.op = "pipe"
    /\ done.exit = "err"
    /\ done.n = 3
    /\ done.i = 2
    /\ done.stage = Err
    /\ frames = <<>>
    /\ ret = Err
    /\ stdout_status = done.before
    /\ data_in = NoData
    /\ pipe_pgid = 0

====
